---- MODULE Spec2Model ----
(***************************************************************************)
(* uio_htif_t: the UIO-window memory-access layer of uart_tsi              *)
(* (src/uio_mmio_src/uio_htif.cc, uio_htif.h).                             *)
(*                                                                         *)
(* addr_t and size_t are unsigned 64-bit.  TLC's integers are 32-bit, so a *)
(* 64-bit value is written as four 16-bit limbs, most significant first:   *)
(* 0x3fffc000 is <<0, 0, \H3fff, \Hc000>>.  Add64 and Sub64 are the C++    *)
(* operators + and - on such values: they wrap modulo 2^64.                *)
(***************************************************************************)
EXTENDS Integers, Sequences, FiniteSets, TLC

VARIABLES
  pc,         \* "start" | "live" | "failed" | "crashed" | "destroyed"
  uio_base,   \* nullptr | MAP_FAILED | the address of a mapping (1, 2, ...)
  uio_size,   \* size_t uio_size
  uio_fd,     \* int uio_fd
  dram_size,  \* size_t dram_size
  fds,        \* OS: the descriptors open() gave this process, still open
  maps,       \* OS: the ids of the mappings mmap() gave this process, still mapped
  mem,        \* the device memory behind the window, at the offsets in Cells
  last        \* what the most recent call did (CallRec)

vars == <<pc, uio_base, uio_size, uio_fd, dram_size, fds, maps, mem, last>>

---------------------------------------------------------------------------
(* Bounds of the model                                                     *)

\* RLIMIT_NOFILE of the modelled process: open() fails once MaxFds are open.
MaxFds == 2
\* mmap() fails once MaxMaps mappings are live.
MaxMaps == 2
\* How many leading bytes of a destination buffer the model records.
ProbeLen == 4

---------------------------------------------------------------------------
(* Unsigned 64-bit arithmetic                                              *)

Limb == 2^16

U64 == [1..4 -> 0..(Limb - 1)]

Zero64 == <<0, 0, 0, 0>>
Max64 == <<\Hffff, \Hffff, \Hffff, \Hffff>>

\* A small natural number as a 64-bit value.
Small(n) == <<0, 0, 0, n>>

\* x + y modulo 2^64
Add64(x, y) ==
  LET s4 == x[4] + y[4]
      s3 == x[3] + y[3] + (s4 \div Limb)
      s2 == x[2] + y[2] + (s3 \div Limb)
      s1 == x[1] + y[1] + (s2 \div Limb)
  IN  <<s1 % Limb, s2 % Limb, s3 % Limb, s4 % Limb>>

\* x - y modulo 2^64
Sub64(x, y) ==
  LET d4 == x[4] - y[4]
      b4 == IF d4 < 0 THEN 1 ELSE 0
      d3 == x[3] - y[3] - b4
      b3 == IF d3 < 0 THEN 1 ELSE 0
      d2 == x[2] - y[2] - b3
      b2 == IF d2 < 0 THEN 1 ELSE 0
      d1 == x[1] - y[1] - b2
  IN  <<(d1 + Limb) % Limb, (d2 + Limb) % Limb, (d3 + Limb) % Limb, (d4 + Limb) % Limb>>

\* x < y, unsigned
Lt64(x, y) ==
  \/ x[1] < y[1]
  \/ x[1] = y[1] /\ x[2] < y[2]
  \/ x[1] = y[1] /\ x[2] = y[2] /\ x[3] < y[3]
  \/ x[1] = y[1] /\ x[2] = y[2] /\ x[3] = y[3] /\ x[4] < y[4]

Le64(x, y) == x = y \/ Lt64(x, y)
Gt64(x, y) == Lt64(y, x)
Ge64(x, y) == Le64(y, x)

---------------------------------------------------------------------------
(* Layout constants                                                        *)

UIO_DRAM_OFFSET == <<0, 0, 0, 0>>
UIO_BOOTROM_OFFSET == <<0, 0, \H3fff, \Hc000>>
UIO_CLINT_OFFSET == <<0, 0, \H3fff, \He000>>

ROCKET_BOOTROM_BASE == <<0, 0, 0, \H1000>>
ROCKET_CLINT_BASE == <<0, 0, \H0200, 0>>
ROCKET_DRAM_BASE == <<0, 0, \H8000, 0>>

\* The literals 0x2000 and 0x10000 of the region tests.
BOOTROM_SPAN == <<0, 0, 0, \H2000>>
CLINT_SPAN == <<0, 0, 1, 0>>

\* total_size = 0x40000000 when +uio_size is absent or zero.
DEFAULT_UIO_SIZE == <<0, 0, \H4000, 0>>

\* chunk_max_size(): 1024 * 1024
chunk_max_size == <<0, 0, \H0010, 0>>

---------------------------------------------------------------------------
(* Address translation and validation                                      *)

InBootRom(rocket_addr) ==
  /\ Ge64(rocket_addr, ROCKET_BOOTROM_BASE)
  /\ Lt64(rocket_addr, Add64(ROCKET_BOOTROM_BASE, BOOTROM_SPAN))

InClint(rocket_addr) ==
  /\ Ge64(rocket_addr, ROCKET_CLINT_BASE)
  /\ Lt64(rocket_addr, Add64(ROCKET_CLINT_BASE, CLINT_SPAN))

\* The offset returned, and whether the "Unmapped Rocket address" warning
\* was printed on the way.
rocket_addr_to_uio_offset(rocket_addr) ==
  IF InBootRom(rocket_addr)
    THEN [off  |-> Add64(UIO_BOOTROM_OFFSET, Sub64(rocket_addr, ROCKET_BOOTROM_BASE)),
          warn |-> FALSE]
  ELSE IF InClint(rocket_addr)
    THEN [off  |-> Add64(UIO_CLINT_OFFSET, Sub64(rocket_addr, ROCKET_CLINT_BASE)),
          warn |-> FALSE]
  ELSE IF Ge64(rocket_addr, ROCKET_DRAM_BASE)
    THEN [off  |-> Add64(UIO_DRAM_OFFSET, Sub64(rocket_addr, ROCKET_DRAM_BASE)),
          warn |-> FALSE]
  ELSE [off |-> Zero64, warn |-> TRUE]

\* is_valid_address with the region tests of the boot ROM and of CLINT left
\* out: only the window bound is checked there.
is_valid_address_window_only(rocket_addr, len) ==
  LET uio_offset == rocket_addr_to_uio_offset(rocket_addr).off
  IN  IF Gt64(Add64(uio_offset, len), uio_size) THEN FALSE
      ELSE IF InBootRom(rocket_addr) THEN TRUE
      ELSE IF InClint(rocket_addr) THEN TRUE
      ELSE IF Ge64(rocket_addr, ROCKET_DRAM_BASE)
        THEN Le64(Add64(Sub64(rocket_addr, ROCKET_DRAM_BASE), len), dram_size)
      ELSE FALSE

\* is_valid_address whose last statement is "return true".
is_valid_address_falls_through(rocket_addr, len) ==
  LET uio_offset == rocket_addr_to_uio_offset(rocket_addr).off
  IN  IF Gt64(Add64(uio_offset, len), uio_size) THEN FALSE
      ELSE IF InBootRom(rocket_addr)
        THEN Le64(Add64(rocket_addr, len), Add64(ROCKET_BOOTROM_BASE, BOOTROM_SPAN))
      ELSE IF InClint(rocket_addr)
        THEN Le64(Add64(rocket_addr, len), Add64(ROCKET_CLINT_BASE, CLINT_SPAN))
      ELSE IF Ge64(rocket_addr, ROCKET_DRAM_BASE)
        THEN Le64(Add64(Sub64(rocket_addr, ROCKET_DRAM_BASE), len), dram_size)
      ELSE TRUE

is_valid_address(rocket_addr, len) ==
  LET uio_offset == rocket_addr_to_uio_offset(rocket_addr).off
  IN  IF Gt64(Add64(uio_offset, len), uio_size) THEN FALSE
      ELSE IF InBootRom(rocket_addr)
        THEN Le64(Add64(rocket_addr, len), Add64(ROCKET_BOOTROM_BASE, BOOTROM_SPAN))
      ELSE IF InClint(rocket_addr)
        THEN Le64(Add64(rocket_addr, len), Add64(ROCKET_CLINT_BASE, CLINT_SPAN))
      ELSE IF Ge64(rocket_addr, ROCKET_DRAM_BASE)
        THEN Le64(Add64(Sub64(rocket_addr, ROCKET_DRAM_BASE), len), dram_size)
      ELSE FALSE

---------------------------------------------------------------------------
(* Inputs the model draws from                                             *)

\* Target addresses around every region boundary, for a single call.
AddrsV ==
  { <<0, 0, 0, 0>>,                            \* 0x0
    <<0, 0, 0, \H0fff>>,                       \* 0xfff
    <<0, 0, 0, \H1000>>,                       \* 0x1000      boot ROM base
    <<0, 0, 0, \H2ffc>>,                       \* 0x2ffc      last boot ROM word
    <<0, 0, 0, \H3000>>,                       \* 0x3000      boot ROM end
    <<0, 0, \H01ff, \Hffff>>,                  \* 0x1ffffff
    <<0, 0, \H0200, 0>>,                       \* 0x2000000   CLINT base
    <<0, 0, \H0200, \H1ffc>>,                  \* 0x2001ffc   -> offset 0x3ffffffc
    <<0, 0, \H0200, \H2000>>,                  \* 0x2002000   -> offset 0x40000000
    <<0, 0, \H0200, \Hfffc>>,                  \* 0x200fffc   last CLINT word
    <<0, 0, \H0201, 0>>,                       \* 0x2010000   CLINT end
    <<0, 0, \H7fff, \Hffff>>,                  \* 0x7fffffff
    <<0, 0, \H8000, 0>>,                       \* 0x80000000  DRAM base
    <<0, 0, \H8000, 1>>,                       \* 0x80000001
    <<0, 0, \H8000, \H0ffc>>,                  \* 0x80000ffc
    <<0, 0, \H8000, \H1000>>,                  \* 0x80001000
    <<0, 0, \Hbfff, \Hbffc>>,                  \* 0xbfffbffc  last default DRAM word
    <<0, 0, \Hbfff, \Hc000>>,                  \* 0xbfffc000  default DRAM end
    <<0, 0, \Hc000, 0>>,                       \* 0xc0000000  -> offset 0x40000000
    <<\Hffff, \Hffff, \Hffff, \Hffff>> }       \* 2^64 - 1

\* Lengths for a single call: within the transfer cap, above it, and near 2^64.
LensV ==
  { <<0, 0, 0, 0>>,
    <<0, 0, 0, 1>>,
    <<0, 0, 0, 4>>,
    <<0, 0, 0, 8>>,
    <<0, 0, 0, \H2000>>,
    <<0, 0, \H0010, 0>>,                       \* 1 MiB
    <<0, 0, \H8000, 1>>,                       \* 0x80000001
    <<\Hffff, \Hffff, \Hffff, \Hf000>>,        \* 2^64 - 0x1000
    <<\Hffff, \Hffff, \Hffff, \Hffff>> }       \* 2^64 - 1

\* Values of +uio_size= (zero: absent, the default applies).
SizeArgsV ==
  { <<0, 0, 0, 0>>,
    <<0, 0, 0, \H1000>>,
    <<0, 0, \H3fff, \He004>>,
    <<0, 0, \H4001, 0>>,                       \* 0x40010000: room for all of CLINT
    <<0, 0, \H5000, 0>> }

\* Values of +dram_size= (zero: absent, the default applies).
DramArgsV ==
  { <<0, 0, 0, 0>>,
    <<0, 0, 0, \H1000>>,
    <<0, 0, \H4000, 0>>,
    <<0, 0, \H5000, 0>>,
    <<\Hffff, \Hffff, \Hffff, \Hffff>> }

\* The inputs of the call sequences: the first word of the interrupt-control
\* block and of main memory, and the top of the address space.
AddrsS ==
  { <<0, 0, \H0200, 0>>,
    <<0, 0, \H8000, 0>>,
    <<\Hffff, \Hffff, \Hffff, \Hffff>> }

LensS ==
  { <<0, 0, 0, 0>>,
    <<0, 0, 0, 4>>,
    <<0, 0, \H8000, 1>> }

SizeArgsS == { <<0, 0, 0, 0>> }
DramArgsS == { <<0, 0, 0, 0>> }

\* The sizes handed to the public map_uio_device.
MapSizesS == { <<0, 0, 0, 0>>, <<0, 0, \H4000, 0>> }

\* A source buffer is its first four bytes, repeated to the length asked for.
Fills == { <<\Ha0, \Ha1, \Ha2, \Ha3>> }
ZeroFill == <<0, 0, 0, 0>>
\* uint32_t one = 1, as it lies in memory on the little-endian host.
OneWord == <<1, 0, 0, 0>>

\* What the device memory holds before the host writes it.
PowerOnByte == \Hee
\* Bytes a read outside the window may bring back.
StrayBytes == { 0, \Hff }

---------------------------------------------------------------------------
(* The state                                                               *)

nullptr == 0
MAP_FAILED == -1

InRegion(a) == ~rocket_addr_to_uio_offset(a).warn

\* The window offsets whose bytes the model holds: the first ProbeLen bytes
\* at every address of the call sequences that lies in a region.  A byte of
\* the window at any other offset reads as Unknown.
Cells ==
  { Add64(rocket_addr_to_uio_offset(a).off, Small(i)) :
      a \in { b \in AddrsS : InRegion(b) }, i \in 0..(ProbeLen - 1) }

\* Not a byte: the model does not hold the byte read.
Unknown == 0 - 1

NoCall ==
  [ op      |-> "none",     \* the function called
    via     |-> "none",     \* its caller: "driver" or "reset"
    addr    |-> Zero64,
    len     |-> Zero64,
    src     |-> ZeroFill,
    valid   |-> FALSE,      \* what is_valid_address returned
    off     |-> Zero64,     \* what rocket_addr_to_uio_offset returned
    warned  |-> FALSE,      \* the "Unmapped Rocket address" warning was printed
    mapped  |-> FALSE,      \* uio_base named a live mapping when the call began
    outcome |-> "none",     \* an access: "ok" | "error" (the exception) | "segv" |
                            \* "stray"; map_uio_device: "none" | "open" | "mmap"
    fence   |-> FALSE,      \* __sync_synchronize() was reached
    wrote   |-> {},         \* the cells of the window the call stored to
    dst     |-> <<>>,       \* the first bytes of the destination buffer
    ret     |-> FALSE,      \* map_uio_device's return value
    munmaps |-> 0,          \* munmap() calls made
    closes  |-> 0,          \* close() calls made
    bad     |-> FALSE ]     \* munmap() or close() of something already released

Init ==
  /\ pc = "start"
  /\ uio_base = nullptr
  /\ uio_size = Zero64
  /\ uio_fd = -1
  /\ dram_size = Zero64
  /\ fds = {}
  /\ maps = {}
  /\ mem = [c \in Cells |-> PowerOnByte]
  /\ last = NoCall

---------------------------------------------------------------------------
(* The mapped window: map_uio_device, unmap_uio                            *)

\* The descriptor open() returns, the lowest one not in use (0, 1 and 2 are
\* the standard streams); the address mmap() returns is named the same way.
LowestFree(used, from) ==
  CHOOSE n \in from..(from + Cardinality(used)) :
    n \notin used /\ \A m \in from..(n - 1) : m \in used

\* uio_base names a mapping that is live.
Mapped == uio_base \in maps

\* The fields and the OS state that map_uio_device(uio_device, size) leaves,
\* and its return value.  openOk and mmapOk say whether the OS lets open()
\* and mmap() succeed; mmap() of zero bytes fails (EINVAL).
map_uio_device(size, openOk, mmapOk) ==
  IF ~(openOk /\ Cardinality(fds) < MaxFds)
    THEN [ret |-> FALSE, err |-> "open", fd |-> -1, base |-> uio_base,
          usize |-> uio_size, fds |-> fds, maps |-> maps]
  ELSE LET fd == LowestFree(fds, 3)
       IN  IF ~(mmapOk /\ size # Zero64 /\ Cardinality(maps) < MaxMaps)
             THEN [ret |-> FALSE, err |-> "mmap", fd |-> -1, base |-> MAP_FAILED,
                   usize |-> uio_size, fds |-> (fds \cup {fd}) \ {fd}, maps |-> maps]
           ELSE LET m == LowestFree(maps, 1)
                IN  [ret |-> TRUE, err |-> "none", fd |-> fd, base |-> m, usize |-> size,
                     fds |-> fds \cup {fd}, maps |-> maps \cup {m}]

\* unmap_uio without "uio_base = nullptr" after the munmap.
unmap_uio_keeps_base ==
  LET unmaps == uio_base # nullptr /\ uio_base # MAP_FAILED
      closes == uio_fd >= 0
  IN  [base    |-> uio_base,
       fd      |-> IF closes THEN -1 ELSE uio_fd,
       fds     |-> IF closes THEN fds \ {uio_fd} ELSE fds,
       maps    |-> IF unmaps THEN maps \ {uio_base} ELSE maps,
       munmaps |-> IF unmaps THEN 1 ELSE 0,
       closes  |-> IF closes THEN 1 ELSE 0,
       bad     |-> \/ unmaps /\ uio_base \notin maps
                   \/ closes /\ uio_fd \notin fds]

\* The fields and the OS state that unmap_uio() leaves.
unmap_uio ==
  LET unmaps == uio_base # nullptr /\ uio_base # MAP_FAILED
      closes == uio_fd >= 0
  IN  [base    |-> IF unmaps THEN nullptr ELSE uio_base,
       fd      |-> IF closes THEN -1 ELSE uio_fd,
       fds     |-> IF closes THEN fds \ {uio_fd} ELSE fds,
       maps    |-> IF unmaps THEN maps \ {uio_base} ELSE maps,
       munmaps |-> IF unmaps THEN 1 ELSE 0,
       closes  |-> IF closes THEN 1 ELSE 0,
       bad     |-> \/ unmaps /\ uio_base \notin maps
                   \/ closes /\ uio_fd \notin fds]

\* uio_htif_t(argc, argv): the member initialisers are Init; the body is
\* parse_uio_args.  devGiven: a +uio= argument names a device; sizeArg and
\* dramArg: what strtoull made of +uio_size= and +dram_size= (zero when absent).
Construct(devGiven, sizeArg, dramArg, openOk, mmapOk) ==
  /\ pc = "start"
  /\ LET total_size == IF sizeArg = Zero64 THEN DEFAULT_UIO_SIZE ELSE sizeArg
         r == map_uio_device(total_size, openOk, mmapOk)
     IN  /\ dram_size' = IF dramArg = Zero64 THEN UIO_BOOTROM_OFFSET ELSE dramArg
         /\ IF ~devGiven
              THEN /\ pc' = "failed"
                   /\ last' = [NoCall EXCEPT !.op = "construct",
                                             !.outcome = "invalid_argument"]
                   /\ UNCHANGED <<uio_base, uio_size, uio_fd, fds, maps>>
              ELSE /\ uio_fd' = r.fd
                   /\ uio_base' = r.base
                   /\ uio_size' = r.usize
                   /\ fds' = r.fds
                   /\ maps' = r.maps
                   /\ pc' = IF r.ret THEN "live" ELSE "failed"
                   /\ last' = [NoCall EXCEPT !.op = "construct", !.ret = r.ret,
                                 !.outcome = IF r.ret THEN "ok" ELSE "runtime_error"]
  /\ UNCHANGED mem

\* A call of the public map_uio_device on the constructed instance.
MapUioDevice(size, openOk, mmapOk) ==
  /\ pc = "live"
  /\ LET r == map_uio_device(size, openOk, mmapOk)
     IN  /\ uio_fd' = r.fd
         /\ uio_base' = r.base
         /\ uio_size' = r.usize
         /\ fds' = r.fds
         /\ maps' = r.maps
         /\ last' = [NoCall EXCEPT !.op = "map_uio_device", !.ret = r.ret,
                                   !.mapped = Mapped, !.outcome = r.err]
  /\ UNCHANGED <<pc, dram_size, mem>>

\* A call of the public unmap_uio on the constructed instance.
UnmapUio ==
  /\ pc = "live"
  /\ LET r == unmap_uio
     IN  /\ uio_fd' = r.fd
         /\ uio_base' = r.base
         /\ fds' = r.fds
         /\ maps' = r.maps
         /\ last' = [NoCall EXCEPT !.op = "unmap_uio", !.mapped = Mapped,
                                   !.munmaps = r.munmaps, !.closes = r.closes,
                                   !.bad = r.bad, !.outcome = "ok"]
  /\ UNCHANGED <<pc, uio_size, dram_size, mem>>

\* ~uio_htif_t()
Destroy ==
  /\ pc = "live"
  /\ LET r == unmap_uio
     IN  /\ uio_fd' = r.fd
         /\ uio_base' = r.base
         /\ fds' = r.fds
         /\ maps' = r.maps
         /\ last' = [NoCall EXCEPT !.op = "destroy", !.mapped = Mapped,
                                   !.munmaps = r.munmaps, !.closes = r.closes,
                                   !.bad = r.bad, !.outcome = "ok"]
  /\ pc' = "destroyed"
  /\ UNCHANGED <<uio_size, dram_size, mem>>

---------------------------------------------------------------------------
(* The access operations: read_chunk, write_chunk, clear_chunk, reset      *)

\* x + y does not fit in 64 bits.
Carry64(x, y) == Lt64(Add64(x, y), x)

\* Byte k of a buffer that repeats the four bytes of fill.
FillByte(fill, k) == fill[(k[4] % 4) + 1]

\* memcpy and memset go through the bytes uio_base + off + i, for i < len,
\* computed in 64 bits: the byte at window offset c is one of them when
\* (c - off) mod 2^64 < len, and it is a byte of the mapping when c < uio_size.
Touched(c, off, len) == Lt64(Sub64(c, off), len)
InWindow(c) == Lt64(c, uio_size)
InWindowRange(c, off, len) == Mapped /\ Touched(c, off, len) /\ InWindow(c)
WindowCells(off, len) == { c \in Cells : InWindowRange(c, off, len) }

\* The copy leaves the mapping: some byte it goes through is not a byte of
\* the mapped window (no mapping is live, or off + len runs past uio_size).
LeavesMapping(off, len) ==
  /\ len # Zero64
  /\ \/ ~Mapped
     \/ Carry64(off, len)
     \/ Gt64(Add64(off, len), uio_size)

\* mem after the bytes of the range that lie in the window are stored from a
\* buffer laid at window offset off (stores = FALSE: after none is stored).
StoredIn(stores, off, len, fill) ==
  [c \in Cells |-> IF stores /\ InWindowRange(c, off, len)
                     THEN FillByte(fill, Sub64(c, off)) ELSE mem[c]]

\* The byte of the window at offset c.
ByteAt(c) == IF c \in Cells THEN mem[c] ELSE Unknown

\* The first bytes of a buffer of len bytes.
PrefixLen(len) == IF Lt64(len, Small(ProbeLen)) THEN len[4] ELSE ProbeLen

\* The record of a call that got as far as is_valid_address.
Call(op, via, taddr, len, src) ==
  [NoCall EXCEPT !.op = op, !.via = via, !.addr = taddr, !.len = len, !.src = src,
                 !.valid = is_valid_address(taddr, len),
                 !.off = rocket_addr_to_uio_offset(taddr).off,
                 !.warned = rocket_addr_to_uio_offset(taddr).warn,
                 !.mapped = Mapped]

\* A memcpy to or memset of the window that leaves the mapping is undefined:
\* the process is killed by the fault, having stored the part of the range
\* that lies in the window or none of it, or the stray bytes happen to be
\* addressable and the call goes on as if nothing had happened.
StoreOutsideMapping(call, fill) ==
  \/ \E part \in BOOLEAN :
       /\ pc' = "crashed"
       /\ mem' = StoredIn(part, call.off, call.len, fill)
       /\ last' = [call EXCEPT !.outcome = "segv",
                     !.wrote = IF part THEN WindowCells(call.off, call.len) ELSE {}]
  \/ /\ pc' = pc
     /\ mem' = StoredIn(TRUE, call.off, call.len, fill)
     /\ last' = [call EXCEPT !.outcome = "stray", !.fence = TRUE,
                   !.wrote = WindowCells(call.off, call.len)]

read_chunk(taddr, len) ==
  /\ pc = "live"
  /\ \E call \in {Call("read_chunk", "driver", taddr, len, ZeroFill)} :
         IF ~call.valid
           THEN /\ last' = [call EXCEPT !.outcome = "error"]
                /\ UNCHANGED <<pc, mem>>
         ELSE IF LeavesMapping(call.off, len)
           THEN \/ /\ pc' = "crashed"
                   /\ last' = [call EXCEPT !.outcome = "segv"]
                   /\ UNCHANGED mem
                \/ \E g \in StrayBytes :
                     /\ last' = [call EXCEPT !.outcome = "stray",
                                   !.dst = [i \in 1..PrefixLen(len) |-> g]]
                     /\ UNCHANGED <<pc, mem>>
         ELSE /\ last' = [call EXCEPT !.outcome = "ok",
                            !.dst = [i \in 1..PrefixLen(len) |->
                                       ByteAt(Add64(call.off, Small(i - 1)))]]
              /\ UNCHANGED <<pc, mem>>
  /\ UNCHANGED <<uio_base, uio_size, uio_fd, dram_size, fds, maps>>

write_chunk(via, taddr, len, src) ==
  /\ pc = "live"
  /\ \E call \in {Call("write_chunk", via, taddr, len, src)} :
         IF ~call.valid
           THEN /\ last' = [call EXCEPT !.outcome = "error"]
                /\ UNCHANGED <<pc, mem>>
         ELSE IF LeavesMapping(call.off, len)
           THEN StoreOutsideMapping(call, src)
         ELSE /\ mem' = StoredIn(TRUE, call.off, len, src)
              /\ last' = [call EXCEPT !.outcome = "ok", !.fence = TRUE,
                            !.wrote = WindowCells(call.off, len)]
              /\ pc' = pc
  /\ UNCHANGED <<uio_base, uio_size, uio_fd, dram_size, fds, maps>>

clear_chunk(taddr, len) ==
  /\ pc = "live"
  /\ \E call \in {Call("clear_chunk", "driver", taddr, len, ZeroFill)} :
         IF ~call.valid
           THEN /\ last' = [call EXCEPT !.outcome = "error"]
                /\ UNCHANGED <<pc, mem>>
         ELSE IF LeavesMapping(call.off, len)
           THEN StoreOutsideMapping(call, ZeroFill)
         ELSE /\ mem' = StoredIn(TRUE, call.off, len, ZeroFill)
              /\ last' = [call EXCEPT !.outcome = "ok", !.fence = TRUE,
                            !.wrote = WindowCells(call.off, len)]
              /\ pc' = pc
  /\ UNCHANGED <<uio_base, uio_size, uio_fd, dram_size, fds, maps>>

\* reset(): the MSIP write that starts hart 0.
reset == write_chunk("reset", ROCKET_CLINT_BASE, Small(4), OneWord)

\* is_valid_address(rocket_addr, len) called on its own.
IsValidAddress(rocket_addr, len) ==
  /\ pc = "live"
  /\ last' = [Call("is_valid_address", "driver", rocket_addr, len, ZeroFill)
                EXCEPT !.outcome = "ok"]
  /\ UNCHANGED <<pc, uio_base, uio_size, uio_fd, dram_size, fds, maps, mem>>

---------------------------------------------------------------------------
(* The specifications                                                      *)

\* Any sequence of calls on one instance.
Next ==
  \/ \E devGiven, openOk, mmapOk \in BOOLEAN, s \in SizeArgsS, d \in DramArgsS :
       Construct(devGiven, s, d, openOk, mmapOk)
  \/ \E s \in MapSizesS, openOk, mmapOk \in BOOLEAN : MapUioDevice(s, openOk, mmapOk)
  \/ UnmapUio
  \/ Destroy
  \/ \E a \in AddrsS, len \in LensS : read_chunk(a, len)
  \/ \E a \in AddrsS, len \in LensS, src \in Fills : write_chunk("driver", a, len, src)
  \/ \E a \in AddrsS, len \in LensS : clear_chunk(a, len)
  \/ reset

Spec == Init /\ [][Next]_vars

\* The instance has just been constructed and nothing was called on it yet.
Fresh == last.op = "construct"

\* One call on a freshly constructed instance, for every configuration and
\* every address and length of the wide input sets.
NextV ==
  \/ \E devGiven, openOk, mmapOk \in BOOLEAN, s \in SizeArgsV, d \in DramArgsV :
       Construct(devGiven, s, d, openOk, mmapOk)
  \/ Fresh /\ \E a \in AddrsV, len \in LensV : IsValidAddress(a, len)
  \/ Fresh /\ \E a \in AddrsV, len \in LensV : read_chunk(a, len)
  \/ Fresh /\ \E a \in AddrsV, len \in LensV, src \in Fills :
       write_chunk("driver", a, len, src)
  \/ Fresh /\ \E a \in AddrsV, len \in LensV : clear_chunk(a, len)

SpecV == Init /\ [][NextV]_vars

---------------------------------------------------------------------------
(* The vocabulary of the properties                                        *)

\* Sums and comparisons in the integers: a 64-bit value with a leading limb
\* that holds the carry.
Wide(x) == <<0>> \o x
Sum65(x, y) == <<IF Carry64(x, y) THEN 1 ELSE 0>> \o Add64(x, y)
LtW(u, v) == \E i \in 1..5 : u[i] < v[i] /\ \A j \in 1..(i - 1) : u[j] = v[j]
LeW(u, v) == u = v \/ LtW(u, v)

\* The three regions of the target address space: [base, base + length) in
\* target addresses, laid at offset in the window.
Regions ==
  { [name |-> "boot-rom", base |-> ROCKET_BOOTROM_BASE, length |-> BOOTROM_SPAN,
     offset |-> UIO_BOOTROM_OFFSET],
    [name |-> "interrupt-control", base |-> ROCKET_CLINT_BASE, length |-> CLINT_SPAN,
     offset |-> UIO_CLINT_OFFSET],
    [name |-> "memory", base |-> ROCKET_DRAM_BASE, length |-> dram_size,
     offset |-> UIO_DRAM_OFFSET] }

RegionEnd(r) == Sum65(r.base, r.length)
InTarget(r, a) == Le64(r.base, a) /\ LtW(Wide(a), RegionEnd(r))
RegionsOf(a) == { r \in Regions : InTarget(r, a) }
WindowOffset(r, a) == Add64(r.offset, Sub64(a, r.base))

\* The calls that evaluate is_valid_address, and those that copy bytes.
Validating == {"is_valid_address", "read_chunk", "write_chunk", "clear_chunk"}
Chunks == {"read_chunk", "write_chunk", "clear_chunk"}

\* Conditions (1), (2) and (3) of the validation contract.
ContractValid(a, len) ==
  /\ Cardinality(RegionsOf(a)) = 1
  /\ \A r \in RegionsOf(a) :
       /\ LeW(Sum65(WindowOffset(r, a), len), Wide(uio_size))
       /\ LeW(Sum65(a, len), RegionEnd(r))

\* An empty access at the first address past main memory, the window having
\* room for all of main memory.
EmptyAtMemoryEnd(a, len) ==
  /\ len = Zero64
  /\ Wide(a) = Sum65(ROCKET_DRAM_BASE, dram_size)
  /\ Le64(dram_size, uio_size)

---------------------------------------------------------------------------
(* The properties                                                          *)

C2_AcceptedInsideWindow ==
  last.op \in Chunks =>
    /\ (last.valid /\ last.len # Zero64) =>
         /\ LeW(Sum65(last.off, last.len), Wide(uio_size))
         /\ \E r \in RegionsOf(last.addr) :
              /\ Le64(r.offset, last.off)
              /\ LeW(Sum65(last.off, last.len), Sum65(r.offset, r.length))
    /\ ~last.valid => (last.outcome = "error" /\ last.wrote = {})

C4_MainMemoryValid ==
  (/\ last.op \in Validating
   /\ Le64(ROCKET_DRAM_BASE, last.addr)
   /\ LtW(Wide(last.addr), Sum65(ROCKET_DRAM_BASE, dram_size))
   /\ LeW(Sum65(last.addr, last.len), Sum65(ROCKET_DRAM_BASE, dram_size)))
    => (last.off = Sub64(last.addr, ROCKET_DRAM_BASE) /\ last.valid)

\* C5: once the constructor has succeeded, the three regions are pairwise
\* disjoint in target addresses and in window offsets, and each region's
\* window offset plus its length does not exceed the window size.
C5_RegionsDisjointAndFit ==
  pc = "live" =>
    /\ \A r1, r2 \in Regions :
         r1 # r2 =>
           /\ \/ LeW(RegionEnd(r1), Wide(r2.base))
              \/ LeW(RegionEnd(r2), Wide(r1.base))
           /\ \/ LeW(Sum65(r1.offset, r1.length), Wide(r2.offset))
              \/ LeW(Sum65(r2.offset, r2.length), Wide(r1.offset))
    /\ \A r \in Regions : LeW(Sum65(r.offset, r.length), Wide(uio_size))

\* C6: uio_base is a usable address exactly when it names a live mapping, and
\* a read_chunk, write_chunk, clear_chunk or reset that is to copy bytes
\* (len > 0) while no mapping is live is rejected.
C6_NoAccessWhileUnmapped ==
  /\ (uio_base \notin {nullptr, MAP_FAILED}) <=> Mapped
  /\ (last.op \in Chunks /\ ~last.mapped /\ last.len # Zero64)
       => last.outcome = "error"

\* C7: a read_chunk, write_chunk or clear_chunk call either fails validation,
\* raises the error, stores nothing, fills no destination byte and issues no
\* fence; or it copies or clears exactly the len bytes at the translated
\* offset and, for write_chunk and clear_chunk, issues the fence.
C7_AllOrNothing ==
  last.op \in Chunks =>
    \/ /\ ~last.valid
       /\ last.outcome = "error"
       /\ last.wrote = {}
       /\ last.dst = <<>>
       /\ ~last.fence
    \/ /\ last.valid
       /\ last.outcome = "ok"
       /\ last.op = "read_chunk" =>
            (last.wrote = {} /\ ~last.fence /\ Len(last.dst) = PrefixLen(last.len))
       /\ last.op # "read_chunk" =>
            (/\ last.wrote = { c \in Cells : Touched(c, last.off, last.len) }
             /\ last.fence)

\* C8: a step of unmap_uio (or of the destructor, which is unmap_uio) leaves
\* uio_fd = -1 and uio_base null or MAP_FAILED, naming no live mapping and no
\* open descriptor; it releases the mapping and the descriptor the instance
\* recorded and nothing else, and never one already released; a call right
\* after another call releases nothing and changes nothing; and after a
\* failed open on an instance without a window, no window is mapped and the
\* call is a no-op.
C8_UnmapIdempotent ==
  [][ last'.op \in {"unmap_uio", "destroy"} =>
        /\ uio_fd' = -1
        /\ uio_base' \in {nullptr, MAP_FAILED}
        /\ uio_base' \notin maps'
        /\ uio_fd' \notin fds'
        /\ ~last'.bad
        /\ maps' = maps \ {uio_base}
        /\ fds' = fds \ {uio_fd}
        /\ last.op = "unmap_uio" =>
             (/\ last'.munmaps = 0
              /\ last'.closes = 0
              /\ UNCHANGED <<uio_base, uio_fd, fds, maps, uio_size>>)
        /\ (last.op = "map_uio_device" /\ last.outcome = "open" /\ ~last.mapped) =>
             (/\ ~Mapped
              /\ last'.munmaps = 0
              /\ last'.closes = 0
              /\ UNCHANGED <<uio_base, uio_fd, fds, maps>>)
    ]_vars

\* C8, witness: unmap_uio has run on an instance that had been mapped and was
\* closed already, and found nothing to release.
C8_UnmapOnClosed ==
  /\ last.op = "unmap_uio"
  /\ last.munmaps = 0
  /\ last.closes = 0
  /\ uio_base = nullptr
  /\ uio_fd = -1
  /\ uio_size # Zero64

\* C9: with a window mapped, a write_chunk of an access that is_valid_address
\* accepts completes, and a read_chunk of the same address and length right
\* after it completes and leaves in dst the bytes of src.
C9_RoundTrip ==
  [][ /\ (last'.op = "write_chunk" /\ last'.valid /\ last'.mapped)
           => last'.outcome = "ok"
      /\ (/\ last.op = "write_chunk" /\ last.valid /\ last.mapped
          /\ last'.op = "read_chunk"
          /\ last'.addr = last.addr /\ last'.len = last.len)
           => /\ last'.outcome = "ok"
              /\ Len(last'.dst) = PrefixLen(last.len)
              /\ \A i \in 1..Len(last'.dst) :
                   last'.dst[i] = FillByte(last.src, Small(i - 1))
    ]_vars

\* C10: over any sequence of map_uio_device and unmap_uio calls at most one
\* descriptor and at most one mapping are live, each is the one recorded in
\* uio_fd and uio_base, a failed mmap leaves the descriptor it opened closed,
\* and after unmap_uio no descriptor and no mapping remains.
C10_LinearOwnership ==
  /\ Cardinality(fds) <= 1
  /\ Cardinality(maps) <= 1
  /\ \A f \in fds : f = uio_fd
  /\ \A m \in maps : m = uio_base
  /\ (last.op = "map_uio_device" /\ last.outcome = "mmap") => uio_fd \notin fds
  /\ last.op \in {"unmap_uio", "destroy"} => (fds = {} /\ maps = {})

====
